---- MODULE Spec2Model ----
(***************************************************************************)
(* Movement and animation orchestration of the Astro controller            *)
(* (src/src/Astro.js, second component, lines 338-1254): the animation     *)
(* queue, the movement executor and the lifecycle bridge, and the          *)
(* expressive side (direct triggers, colour, gaze, typing, boredom, the    *)
(* blink scheduler, the gaze tick loop) and the curve of a trajectory.     *)
(*                                                                         *)
(* JavaScript runs one callback at a time, so every action below is one    *)
(* run-to-completion piece of code: a public method called by the host, a  *)
(* timer callback, or the continuation of the queued async function from   *)
(* one await to the next.  Durations are abstracted: a timer or a wait     *)
(* that is pending may complete at any later step.                         *)
(***************************************************************************)
EXTENDS Integers, Sequences, FiniteSets, TLC

\* Number of movement requests the host issues in one behaviour.
MaxTasks == 3

\* window.innerWidth / window.innerHeight, read by POSITIONS.
innerWidth == 400
innerHeight == 300

\* The JavaScript value NaN (also what `undefined + 13` evaluates to); a
\* missing argument behaves like it at every place the code inspects it.
NaN == -(10^6)

Pt(a, b) == [x |-> a, y |-> b]

\* x + k in JavaScript arithmetic: NaN is absorbing.
Plus(v, k) == IF v = NaN THEN NaN ELSE v + k

\* !v for a number v: true for 0 and NaN (and for a missing argument).
Falsy(v) == v = NaN \/ v = 0

\* Coordinates the host passes to moveTo: an ordinary point, a point with a
\* 0 coordinate and a point with a missing/NaN coordinate.
MoveToArgs == {Pt(50, 50), Pt(0, 50), Pt(NaN, 50)}

\* Coordinates the host passes to the lifecycle operations (element
\* rectangles): an ordinary point and one with a missing/NaN coordinate.
ArgPoints == {Pt(50, 50), Pt(NaN, 50)}

OFF_SCREEN_RIGHT == Pt(innerWidth + 100, innerHeight + 100)
TOP_MIDDLE == Pt((innerWidth \div 2) - 160, (innerHeight \div 2) - 120)
ABOVE_CHAT_BOX(p) == Pt(Plus(p.x, 13), Plus(p.y, -45))
NEAR_AI_MESSAGE(p) == Pt(Plus(p.x, 13), Plus(p.y, 20))

Ops == {"chatOpen", "firstFocus", "userSends", "aiShown", "moveTo"}

\* The anchor the queued function of a request passes to moveToPosition.
Target(t) ==
  CASE t.op = "chatOpen" -> TOP_MIDDLE
    [] t.op = "firstFocus" -> ABOVE_CHAT_BOX(t.arg)
    [] t.op = "aiShown" -> ABOVE_CHAT_BOX(t.arg)
    [] t.op = "userSends" -> NEAR_AI_MESSAGE(t.arg)
    [] OTHER -> t.arg

\* Every request ends in Idle.
EndStateIdle(t) == "Idle"

\* options.endState of the request, as the name of the trigger it selects.
EndState(t) == IF t.op = "userSends" THEN "Small_Loader" ELSE "Idle"

\* No request skips the shrink.
SkipShrinkNever(t) == FALSE

\* options.skipShrink of the request.
SkipShrink(t) == t.op = "aiShown"

\* The look range of calculateRelativeMousePosition, in pixels.
lookRange == 300

\* Gaze coordinates are numbers in 0..100 with fractions: 50 - (d / 300) * 50
\* is 50 - d/6.  They are kept exactly, as integers counting sixths of a unit.
Sixths(v) == v * (lookRange \div 50)

Gaze(a, b) == Pt(Sixths(a), Sixths(b))

VARIABLES
  center,            \* useState center: Position
  riveHidden,        \* useState riveHidden: primary visual hidden
  leadOpacity,       \* leadDotRef.current.style.opacity (0 or 1)
  trailOpacity,      \* 1 iff the trail dots carry a non-zero opacity
  rive,              \* the collaborator (rive and its inputs) is ready
  animateSupported,  \* Element.animate exists in this environment
  isFirstFocus,      \* isFirstFocus.current
  animationQueue,    \* animationQueue.current: sequence of task ids
  isAnimating,       \* isAnimating.current
  currentAnimation,  \* currentAnimation.current: task id, 0 for null
  animationDebounce, \* animationDebounce.current: timer handle, 0 for null
  timers,            \* pending movement-debounce timers (by task id)
  tasks,             \* every request issued so far
  fired,             \* triggers the last step fired on the collaborator
  nextId,            \* next unused task id
  currentState,      \* useState currentState: CharacterState
  isTyping,          \* useState isTyping: TypingState
  isBored,           \* useState isBored: BoredomState
  boredValue,        \* boredTrig.value, the Bored input of the collaborator
  targetEyePos,      \* useState targetEyePos: the gaze target
  eyeDelay,          \* pending eyeDelayTimeout timers (by the target they set)
  typingTimers,      \* pending typingTimeout timers (the isTyping each captured)
  boredomTimers,     \* pending boredomTimeout timers (by the isTyping they captured)
  rgb,               \* values last written to the Red, Green, Blue inputs
  currentEyePos,     \* useState currentEyePos: the gaze current
  axisValue,         \* values last written to the xAxis, yAxis inputs
  gazeTicks,         \* updates the gaze tick loop has made so far
  blinkTimers,       \* pending blinkInterval timers (by the riveHidden and
                     \* isBored their closure captured)
  pathD              \* the curve last built by buildPathD

\* The movement state: queue, executor and what the movement draws.
moveVars == <<center, riveHidden, leadOpacity, trailOpacity, rive, animateSupported,
              isFirstFocus, animationQueue, isAnimating, currentAnimation,
              animationDebounce, timers, tasks, fired, nextId>>

\* The state of the expressive side: CharacterState, gaze, typing, boredom,
\* colour, blinking, and the curve the dots are given to travel.
uiVars == <<currentState, isTyping, isBored, boredValue, targetEyePos, eyeDelay,
            typingTimers, boredomTimers, rgb, currentEyePos, axisValue, gazeTicks,
            blinkTimers, pathD>>

vars == <<moveVars, uiVars>>

TaskIds == 1..MaxTasks

\* The gaze current moves in steps of a fifth of the remaining distance, so it
\* is kept on a finer grid than the target: thousandths of a sixth of a unit.
Fine(p) == Pt(IF p.x = NaN THEN NaN ELSE p.x * 1000,
              IF p.y = NaN THEN NaN ELSE p.y * 1000)

\* pc of a request: where its queued function stands.
\*   none       not issued yet
\*   debounced  waiting in its debounce window (timer pending)
\*   dropped    its debounce timer was cleared before firing
\*   queued     in animationQueue
\*   flushed    removed from animationQueue by a cancellation
\*   settle     await sleep(RETURN_TO_CHAT_DELAY)      (line 923)
\*   rejected   moveToPosition returned at line 741, function not yet settled
\*   waitRive   await waitForRive()                    (line 744)
\*   shrink     await sleep(SHRINK_DURATION)           (line 763)
\*   preTravel  await sleep(DELAY_BEFORE_MOVE)         (line 800)
\*   travel     await leadAnim.finished                (line 836)
\*   refresh    await requestAnimationFrame            (line 847)
\*   done       the function has settled and the finally block has run
\* A request that is dropped, flushed or done is unreachable garbage: its
\* record keeps nothing but that pc.
Suspended == {"settle", "rejected", "waitRive", "shrink", "preTravel", "travel", "refresh"}

NoTask == [op |-> "moveTo", arg |-> Pt(0, 0), pc |-> "none", cancelled |-> FALSE,
           anim |-> 0, start |-> Pt(0, 0), rv |-> FALSE]

Gone(pc) == [NoTask EXCEPT !.pc = pc]

\* A request: the closure it captures (arguments, center and collaborator of
\* the render it was created in) and the queue entry {fn, cancelled}.
NewTask(op, arg) ==
  [NoTask EXCEPT !.op = op, !.arg = arg, !.start = center, !.rv = rive]

Executing == {i \in TaskIds : tasks[i].pc \in Suspended}

\* The expressive state after construction.
InitUI ==
  /\ currentState = "idle"
  /\ isTyping = FALSE
  /\ isBored = FALSE
  /\ boredValue = FALSE
  /\ eyeDelay = {}
  /\ typingTimers = <<>>
  /\ rgb = <<>>
  /\ axisValue = <<>>
  /\ gazeTicks = 0
  /\ pathD = <<>>

\* The movement state after construction.
InitMove ==
  /\ center = OFF_SCREEN_RIGHT
  /\ riveHidden = FALSE
  /\ leadOpacity = 0
  /\ trailOpacity = 0
  /\ animateSupported \in BOOLEAN
  /\ isFirstFocus = TRUE
  /\ animationQueue = <<>>
  /\ isAnimating = FALSE
  /\ currentAnimation = 0
  /\ animationDebounce = 0
  /\ timers = {}
  /\ tasks = [i \in TaskIds |-> NoTask]
  /\ fired = <<>>
  /\ nextId = 1

Init ==
  /\ InitMove
  /\ InitUI
  /\ rive = FALSE
  /\ targetEyePos = Gaze(50, 50)
  /\ currentEyePos = Fine(Gaze(50, 50))
  /\ boredomTimers = {}
  /\ blinkTimers = {}


(***************************************************************************)
(* Animation queue                                                         *)
(***************************************************************************)

\* cancelCurrentAnimation that drops the reference without marking the task.
CancelCurrentAnimationNoMark(cur, ts) == [cur |-> 0, ts |-> ts]

\* cancelCurrentAnimation: marks the referenced task and drops the reference.
\* Yields the new currentAnimation.current and the new task objects.
CancelCurrentAnimation(cur, ts) ==
  IF cur # 0
    THEN [cur |-> 0, ts |-> [ts EXCEPT ![cur].cancelled = TRUE]]
    ELSE [cur |-> cur, ts |-> ts]

\* animationQueue.current = []: the entries of q are no longer reachable.
ClearQueue(q, ts) ==
  [i \in TaskIds |->
     IF \E k \in 1..Len(q) : q[k] = i THEN Gone("flushed") ELSE ts[i]]

\* A debounce that does not clear the previous timer.
ClearTimeoutNoop(h, tm) == tm

\* clearTimeout(h) on the set tm of pending debounce timers.
ClearTimeout(h, tm) == tm \ {h}

\* moveToPosition without the validity test of line 739.
MoveEntryNoCheck(t) == "waitRive"

\* moveToPosition that gives up when the closure holds no collaborator.
MoveEntryNeedsRive(t) ==
  IF Falsy(Target(t).x) \/ Falsy(Target(t).y) \/ ~t.rv THEN "rejected" ELSE "waitRive"

\* moveToPosition up to its first await: the validity test of line 739.
MoveEntry(t) ==
  IF Falsy(Target(t).x) \/ Falsy(Target(t).y) THEN "rejected" ELSE "waitRive"

\* nextAnim.fn() up to its first await.
EnterFn(t) == IF t.op = "aiShown" THEN "settle" ELSE MoveEntry(t)

\* processAnimationQueue without the isAnimating guard of line 695.
ProcessAnimationQueueNoGuard(q, busy, cur, ts) ==
  IF q = <<>>
    THEN /\ animationQueue' = q
         /\ isAnimating' = busy
         /\ currentAnimation' = cur
         /\ tasks' = ts
    ELSE /\ animationQueue' = Tail(q)
         /\ isAnimating' = TRUE
         /\ currentAnimation' = Head(q)
         /\ tasks' = [ts EXCEPT ![Head(q)].pc = EnterFn(ts[Head(q)])]

\* processAnimationQueue that takes the entry pushed last (pop for shift).
ProcessAnimationQueueLifo(q, busy, cur, ts) ==
  IF busy \/ q = <<>>
    THEN /\ animationQueue' = q
         /\ isAnimating' = busy
         /\ currentAnimation' = cur
         /\ tasks' = ts
    ELSE /\ animationQueue' = SubSeq(q, 1, Len(q) - 1)
         /\ isAnimating' = TRUE
         /\ currentAnimation' = q[Len(q)]
         /\ tasks' = [ts EXCEPT ![q[Len(q)]].pc = EnterFn(ts[q[Len(q)]])]

\* processAnimationQueue, run on queue q, guard busy, reference cur and task
\* objects ts (the values the caller has just produced).
ProcessAnimationQueue(q, busy, cur, ts) ==
  IF busy \/ q = <<>>
    THEN /\ animationQueue' = q
         /\ isAnimating' = busy
         /\ currentAnimation' = cur
         /\ tasks' = ts
    ELSE /\ animationQueue' = Tail(q)
         /\ isAnimating' = TRUE
         /\ currentAnimation' = Head(q)
         /\ tasks' = [ts EXCEPT ![Head(q)].pc = EnterFn(ts[Head(q)])]

\* A finally block that resets the guard but does not look at the queue again.
FinishNoNext(i, ts) ==
  /\ tasks' = [ts EXCEPT ![i] = Gone("done")]
  /\ isAnimating' = FALSE
  /\ currentAnimation' = 0
  /\ UNCHANGED animationQueue

\* The catch/finally of processAnimationQueue once nextAnim.fn() has settled
\* (returned or thrown), then the recursive call.
Finish(i, ts) ==
  ProcessAnimationQueue(animationQueue, FALSE, 0, [ts EXCEPT ![i] = Gone("done")])

\* A rejection of nextAnim.fn() that no catch/finally handles: the lines after
\* the await never run.
ThrowUncaught(i, ts) ==
  /\ tasks' = [ts EXCEPT ![i] = Gone("done")]
  /\ UNCHANGED <<animationQueue, isAnimating, currentAnimation>>

\* nextAnim.fn() rejects: catch (log), finally, recursive call (lines 704-710).
Throw(i, ts) == Finish(i, ts)

\* queueAnimation(fn, options) for the request t, which gets id nextId.
QueueAnimation(t, cancelPrevious, debounce) ==
  LET i == nextId
      c == IF cancelPrevious
             THEN CancelCurrentAnimation(currentAnimation, tasks)
             ELSE [cur |-> currentAnimation, ts |-> tasks]
      q == IF cancelPrevious THEN <<>> ELSE animationQueue
      ts1 == IF cancelPrevious THEN ClearQueue(animationQueue, c.ts) ELSE c.ts
      left == ClearTimeout(animationDebounce, timers)
      ts2 == [k \in TaskIds |->
                IF k \in timers \ left THEN Gone("dropped") ELSE ts1[k]]
  IN /\ nextId' = i + 1
     /\ fired' = <<>>
     /\ IF debounce
          THEN /\ timers' = left \cup {i}
               /\ animationDebounce' = i
               /\ tasks' = [ts2 EXCEPT ![i] = [t EXCEPT !.pc = "debounced"]]
               /\ animationQueue' = q
               /\ currentAnimation' = c.cur
               /\ UNCHANGED isAnimating
          ELSE /\ ProcessAnimationQueue(Append(q, i), isAnimating, c.cur,
                                        [ts1 EXCEPT ![i] = [t EXCEPT !.pc = "queued"]])
               /\ UNCHANGED <<timers, animationDebounce>>

\* The debounce timer of request i fires: push and process (lines 726-729).
DebounceFire(i) ==
  /\ i \in timers
  /\ timers' = timers \ {i}
  /\ ProcessAnimationQueue(Append(animationQueue, i), isAnimating, currentAnimation,
                           [tasks EXCEPT ![i].pc = "queued"])
  /\ UNCHANGED <<center, riveHidden, leadOpacity, trailOpacity, rive, animateSupported,
                 isFirstFocus, animationDebounce, nextId>>
  /\ fired' = <<>>

(***************************************************************************)
(* Lifecycle bridge                                                        *)
(***************************************************************************)

onChatOpen ==
  /\ nextId <= MaxTasks
  /\ center' = OFF_SCREEN_RIGHT
  /\ QueueAnimation(NewTask("chatOpen", Pt(0, 0)), TRUE, FALSE)
  /\ UNCHANGED <<riveHidden, leadOpacity, trailOpacity, rive, animateSupported, isFirstFocus>>

\* onFirstInputFocus without the test of the first-focus flag.
onFirstInputFocusNoGuard(p) ==
  /\ nextId <= MaxTasks
  /\ isFirstFocus' = FALSE
  /\ QueueAnimation(NewTask("firstFocus", p), FALSE, TRUE)
  /\ UNCHANGED <<center, riveHidden, leadOpacity, trailOpacity, rive, animateSupported>>

onFirstInputFocus(p) ==
  IF ~isFirstFocus
    THEN UNCHANGED moveVars
    ELSE /\ nextId <= MaxTasks
         /\ isFirstFocus' = FALSE
         /\ QueueAnimation(NewTask("firstFocus", p), FALSE, TRUE)
         /\ UNCHANGED <<center, riveHidden, leadOpacity, trailOpacity, rive, animateSupported>>

onUserSendsMessage(p) ==
  /\ nextId <= MaxTasks
  /\ QueueAnimation(NewTask("userSends", p), FALSE, TRUE)
  /\ UNCHANGED <<center, riveHidden, leadOpacity, trailOpacity, rive, animateSupported,
                 isFirstFocus>>

onAIMessageShown(p) ==
  /\ nextId <= MaxTasks
  /\ QueueAnimation(NewTask("aiShown", p), FALSE, TRUE)
  /\ UNCHANGED <<center, riveHidden, leadOpacity, trailOpacity, rive, animateSupported,
                 isFirstFocus>>

moveTo(p) ==
  /\ nextId <= MaxTasks
  /\ QueueAnimation(NewTask("moveTo", p), FALSE, FALSE)
  /\ UNCHANGED <<center, riveHidden, leadOpacity, trailOpacity, rive, animateSupported,
                 isFirstFocus>>

cancelAnimations ==
  LET c == CancelCurrentAnimation(currentAnimation, tasks)
  IN /\ currentAnimation' = c.cur
     /\ tasks' = ClearQueue(animationQueue, c.ts)
     /\ animationQueue' = <<>>
     /\ fired' = <<>>
     /\ UNCHANGED <<center, riveHidden, leadOpacity, trailOpacity, rive, animateSupported,
                    isFirstFocus, isAnimating, animationDebounce, timers, nextId>>

\* The collaborator finishes loading (useRive / useStateMachineInput resolve).
RiveLoaded ==
  /\ ~rive
  /\ rive' = TRUE
  /\ fired' = <<>>
  /\ UNCHANGED <<center, riveHidden, leadOpacity, trailOpacity, animateSupported,
                 isFirstFocus, animationQueue, isAnimating, currentAnimation,
                 animationDebounce, timers, tasks, nextId>>

(***************************************************************************)
(* Movement executor: moveToPosition, one action per continuation          *)
(***************************************************************************)

\* anim?.cancelled, for the reference t.anim read at line 749.
Observed(t, ts) == t.anim # 0 /\ ts[t.anim].cancelled

\* trig?.fire() on a trigger captured by the closure of request t: the input
\* exists only if the collaborator was ready in the render the closure is from.
Fire(t, name) == IF t.rv THEN <<name>> ELSE <<>>

\* A hide step that already moves Position to the target.
HideMoving(i, ts) ==
  /\ riveHidden' = TRUE
  /\ leadOpacity' = 1
  /\ trailOpacity' = 1
  /\ center' = Target(ts[i])
  /\ IF animateSupported
       THEN /\ tasks' = [ts EXCEPT ![i].pc = "preTravel"]
            /\ UNCHANGED <<animationQueue, isAnimating, currentAnimation>>
       ELSE Throw(i, ts)

\* Lines 769-800: hide the primary visual, show the lead and trail dots, start
\* the colour fade (lead.animate, which throws where Element.animate is
\* missing) and suspend in the pre-travel delay.
Hide(i, ts) ==
  /\ riveHidden' = TRUE
  /\ leadOpacity' = 1
  /\ trailOpacity' = 1
  /\ UNCHANGED center
  /\ IF animateSupported
       THEN /\ tasks' = [ts EXCEPT ![i].pc = "preTravel"]
            /\ UNCHANGED <<animationQueue, isAnimating, currentAnimation>>
       ELSE Throw(i, ts)

\* An arrival that reveals the primary visual where the trajectory started.
ArriveAtStart(i, ts) ==
  /\ leadOpacity' = 0
  /\ trailOpacity' = 0
  /\ center' = ts[i].start
  /\ riveHidden' = FALSE
  /\ tasks' = [ts EXCEPT ![i].pc = "refresh"]
  /\ UNCHANGED <<animationQueue, isAnimating, currentAnimation>>

\* Lines 841-847: hide the dots, move Position to the target, reveal the
\* primary visual and suspend for one rendering refresh.
Arrive(i, ts) ==
  /\ leadOpacity' = 0
  /\ trailOpacity' = 0
  /\ center' = Target(ts[i])
  /\ riveHidden' = FALSE
  /\ tasks' = [ts EXCEPT ![i].pc = "refresh"]
  /\ UNCHANGED <<animationQueue, isAnimating, currentAnimation>>

\* The function returns at a cancellation check: `if (anim?.cancelled) return`.
ReturnCancelled(i, ts) ==
  /\ Finish(i, ts)
  /\ UNCHANGED <<center, riveHidden, leadOpacity, trailOpacity>>

\* Line 923 elapses: the queued function of onAIMessageShown calls moveToPosition.
ResumeSettle(i) ==
  /\ tasks[i].pc = "settle"
  /\ tasks' = [tasks EXCEPT ![i].pc = MoveEntry(tasks[i])]
  /\ fired' = <<>>
  /\ UNCHANGED <<center, riveHidden, leadOpacity, trailOpacity, rive, animateSupported,
                 isFirstFocus, animationQueue, isAnimating, currentAnimation,
                 animationDebounce, timers, nextId>>

\* moveToPosition returned at line 741; the queued function settles.
ResumeRejected(i) ==
  /\ tasks[i].pc = "rejected"
  /\ Finish(i, tasks)
  /\ fired' = <<>>
  /\ UNCHANGED <<center, riveHidden, leadOpacity, trailOpacity, rive, animateSupported,
                 isFirstFocus, animationDebounce, timers, nextId>>

\* Lines 746-766: waitForRive() has resolved; read currentAnimation.current,
\* first cancellation check, Shrink trigger and shrink wait unless skipped.
ResumeWaitRive(i) ==
  /\ tasks[i].pc = "waitRive"
  /\ LET ts1 == [tasks EXCEPT ![i].anim = currentAnimation]
     IN IF Observed(ts1[i], ts1)
          THEN ReturnCancelled(i, ts1) /\ fired' = <<>>
          ELSE IF ~SkipShrink(ts1[i])
            THEN /\ tasks' = [ts1 EXCEPT ![i].pc = "shrink"]
                 /\ fired' = Fire(ts1[i], "Shrink")
                 /\ UNCHANGED <<center, riveHidden, leadOpacity, trailOpacity,
                                animationQueue, isAnimating, currentAnimation>>
            ELSE Hide(i, ts1) /\ fired' = <<>>
  /\ UNCHANGED <<rive, animateSupported, isFirstFocus, animationDebounce, timers, nextId>>

\* Line 766 after the shrink wait.
ResumeShrink(i) ==
  /\ tasks[i].pc = "shrink"
  /\ IF Observed(tasks[i], tasks) THEN ReturnCancelled(i, tasks) ELSE Hide(i, tasks)
  /\ fired' = <<>>
  /\ UNCHANGED <<rive, animateSupported, isFirstFocus, animationDebounce, timers, nextId>>

\* A pre-travel continuation that goes to the refresh wait without travelling.
ResumePreTravelNoTravel(i) ==
  /\ tasks[i].pc = "preTravel"
  /\ fired' = <<>>
  /\ IF Observed(tasks[i], tasks)
       THEN ReturnCancelled(i, tasks)
       ELSE /\ tasks' = [tasks EXCEPT ![i].pc = "refresh"]
            /\ UNCHANGED <<center, riveHidden, leadOpacity, trailOpacity,
                           animationQueue, isAnimating, currentAnimation>>
  /\ UNCHANGED <<rive, animateSupported, isFirstFocus, animationDebounce, timers, nextId>>

\* Lines 802-836 after the pre-travel delay: build the path from the captured
\* center to the target, start the lead and trail animations.
ResumePreTravel(i) ==
  /\ tasks[i].pc = "preTravel"
  /\ fired' = <<>>
  /\ IF Observed(tasks[i], tasks)
       THEN ReturnCancelled(i, tasks)
       ELSE /\ tasks' = [tasks EXCEPT ![i].pc = "travel"]
            /\ UNCHANGED <<center, riveHidden, leadOpacity, trailOpacity,
                           animationQueue, isAnimating, currentAnimation>>
  /\ UNCHANGED <<rive, animateSupported, isFirstFocus, animationDebounce, timers, nextId>>

\* Lines 838-847 once leadAnim.finished has resolved.
ResumeTravel(i) ==
  /\ tasks[i].pc = "travel"
  /\ IF Observed(tasks[i], tasks) THEN ReturnCancelled(i, tasks) ELSE Arrive(i, tasks)
  /\ fired' = <<>>
  /\ UNCHANGED <<rive, animateSupported, isFirstFocus, animationDebounce, timers, nextId>>

\* Lines 849-872 after the refresh: gaze reset, end-state trigger, return.
ResumeRefresh(i) ==
  /\ tasks[i].pc = "refresh"
  /\ fired' = Fire(tasks[i], EndState(tasks[i]))
  /\ Finish(i, tasks)
  /\ UNCHANGED <<center, riveHidden, leadOpacity, trailOpacity, rive, animateSupported,
                 isFirstFocus, animationDebounce, timers, nextId>>

\* The movement engine on its own.  The movement code writes the expressive
\* state (a gaze hint, a gaze reset, CharacterState) but reads none of it, so
\* here that state is left where it is; SpecTrig and SpecGaze below run the
\* same handlers with their expressive effects.
Next ==
  \/ onChatOpen /\ UNCHANGED uiVars
  \/ \E p \in ArgPoints : onFirstInputFocus(p) /\ UNCHANGED uiVars
  \/ \E p \in ArgPoints : onUserSendsMessage(p) /\ UNCHANGED uiVars
  \/ \E p \in ArgPoints : onAIMessageShown(p) /\ UNCHANGED uiVars
  \/ \E p \in MoveToArgs : moveTo(p) /\ UNCHANGED uiVars
  \/ cancelAnimations /\ UNCHANGED uiVars
  \/ RiveLoaded /\ UNCHANGED uiVars
  \/ \E i \in TaskIds : DebounceFire(i) /\ UNCHANGED uiVars
  \/ \E i \in TaskIds : ResumeSettle(i) /\ UNCHANGED uiVars
  \/ \E i \in TaskIds : ResumeRejected(i) /\ UNCHANGED uiVars
  \/ \E i \in TaskIds : ResumeWaitRive(i) /\ UNCHANGED uiVars
  \/ \E i \in TaskIds : ResumeShrink(i) /\ UNCHANGED uiVars
  \/ \E i \in TaskIds : ResumePreTravel(i) /\ UNCHANGED uiVars
  \/ \E i \in TaskIds : ResumeTravel(i) /\ UNCHANGED uiVars
  \/ \E i \in TaskIds : ResumeRefresh(i) /\ UNCHANGED uiVars

Spec == Init /\ [][Next]_vars

\* What happens without the host: a debounce timer fires, or a wait of the
\* task in flight (a sleep, the collaborator poll with its timeout, the end of
\* the lead animation, a rendering refresh) completes.
Progress ==
  \E i \in TaskIds :
    /\ \/ DebounceFire(i) \/ ResumeSettle(i) \/ ResumeRejected(i) \/ ResumeWaitRive(i)
       \/ ResumeShrink(i) \/ ResumePreTravel(i) \/ ResumeTravel(i) \/ ResumeRefresh(i)
    /\ UNCHANGED uiVars

\* Timers and animation completions eventually fire.
SpecLive == Spec /\ WF_vars(Progress)

(***************************************************************************)
(* The expressive side: CharacterState, gaze, typing, boredom, triggers,   *)
(* colour.  State setters take effect with the re-render that follows the  *)
(* callback, and the effects of that render run before any other callback, *)
(* so a callback, the render it causes and the effects of that render are  *)
(* one step.  The handlers are written as functions from the expressive    *)
(* state before the step to the one after it.                              *)
(***************************************************************************)

\* Movement requests the host issues in one behaviour of SpecTrig or SpecGaze.
UITasks == 2

\* Coordinates of the lifecycle and moveTo requests in those specifications.
UIPoint == Pt(50, 50)

\* Pointer positions (e.clientX, e.clientY) and caret positions.
PointerArgs == {Pt(50, 50), Pt(70, 10)}
CaretArgs == {Pt(60, 40)}

BOREDOM_EYE_PLACEMENT == Gaze(10, 10)

\* A property read that finds nothing: the JavaScript value undefined.
undefined == NaN - 1

\* ASTRO_COLORS[colorName]: the presets, and for a name that Object.prototype
\* defines ("constructor") the inherited member, an object with no r, g, b.
ASTRO_COLORS ==
  [green |-> <<125, 210, 128>>, pink |-> <<245, 138, 144>>,
   purple |-> <<168, 114, 246>>, black |-> <<0, 0, 0>>,
   constructor |-> <<undefined, undefined, undefined>>]

\* Names the host passes to changeAstroColor.
ColorNames == {"green", "black", "constructor", "red"}

UI ==
  [currentState |-> currentState, isTyping |-> isTyping, isBored |-> isBored,
   boredValue |-> boredValue, targetEyePos |-> targetEyePos, eyeDelay |-> eyeDelay,
   typingTimers |-> typingTimers, boredomTimers |-> boredomTimers, rgb |-> rgb,
   currentEyePos |-> currentEyePos, axisValue |-> axisValue]

\* The blink effect (lines 1048-1074) after the render that commits u: it runs
\* once the Blink input exists, and again when riveHidden or isBored changed,
\* clearing the timer of its previous run and arming one whose callback reads
\* the riveHidden and isBored of this render.
BlinkEffect(u) ==
  IF ~rive'
    THEN blinkTimers
    ELSE IF ~rive \/ riveHidden' # riveHidden \/ u.isBored # isBored
      THEN {[riveHidden |-> riveHidden', isBored |-> u.isBored]}
      ELSE blinkTimers

\* The re-render commits the expressive state u and runs the blink effect; the
\* steps that commit leave the tick count and the curve alone.
SetUI(u) ==
  /\ currentEyePos' = u.currentEyePos
  /\ axisValue' = u.axisValue
  /\ blinkTimers' = BlinkEffect(u)
  /\ UNCHANGED <<gazeTicks, pathD>>
  /\ currentState' = u.currentState
  /\ isTyping' = u.isTyping
  /\ isBored' = u.isBored
  /\ boredValue' = u.boredValue
  /\ targetEyePos' = u.targetEyePos
  /\ eyeDelay' = u.eyeDelay
  /\ typingTimers' = u.typingTimers
  /\ boredomTimers' = u.boredomTimers
  /\ rgb' = u.rgb

\* What a step that is no movement leaves alone.
MoveFrame ==
  UNCHANGED <<center, riveHidden, leadOpacity, trailOpacity, rive, animateSupported,
              isFirstFocus, animationQueue, isAnimating, currentAnimation,
              animationDebounce, timers, tasks, nextId>>

logStateChange(u, to) == [u EXCEPT !.currentState = to]

\* setBoredomState(enabled, restartTimer) of a render in which the Bored input
\* exists iff trig and isTyping is ty (the timer callback reads that isTyping).
setBoredomState(u, enabled, restartTimer, trig, ty) ==
  LET u1 == [u EXCEPT !.boredValue = IF trig THEN enabled ELSE @,
                      !.isBored = enabled]
  IN IF enabled
       THEN [u1 EXCEPT !.targetEyePos = BOREDOM_EYE_PLACEMENT]
       ELSE [u1 EXCEPT !.boredomTimers = IF restartTimer THEN {ty} ELSE {}]

Clamp(v) == IF v < 0 THEN 0 ELSE IF v > Sixths(100) THEN Sixths(100) ELSE v

\* max(0, min(100, 50 - ((mouse - astro) / lookRange) * 50)) on one axis:
\* Math.min and Math.max return NaN when given NaN.
Normalized(mouse, astro) ==
  IF mouse = NaN \/ astro = NaN THEN NaN ELSE Clamp(Sixths(50) - (mouse - astro))

calculateRelativeMousePosition(mouseX, mouseY, astroX, astroY) ==
  Pt(Normalized(mouseX, astroX), Normalized(mouseY, astroY))

\* updateEyePosition: clear the pending delayed update, arm a new one.
updateEyePosition(u, p) == [u EXCEPT !.eyeDelay = {p}]

\* setEyePositionImmediate: clear the pending delayed update, set the gaze
\* current and the target, and write the axis inputs if the closure has them.
setEyePositionImmediate(u, p, trig) ==
  [u EXCEPT !.eyeDelay = {}, !.currentEyePos = Fine(p), !.targetEyePos = p,
            !.axisValue = IF trig THEN Fine(p) ELSE @]

\* The mouse-tracking effect after a render in which one of its dependencies
\* (rive and the axis inputs, isTyping, center) changed: the cleanup of the
\* previous run, if that run had registered one, then the new run.
MouseEffect(u, wasReady, ready) ==
  IF ~ready
    THEN u
    ELSE LET c == IF wasReady
                    THEN [u EXCEPT !.boredomTimers = {}, !.eyeDelay = {}]
                    ELSE u
         IN setBoredomState(c, FALSE, TRUE, TRUE, c.isTyping)

\* trig?.fire() of the latest render.
FireNow(name) == IF rive THEN <<name>> ELSE <<>>

(* Lifecycle operations with their expressive effects. *)

onChatOpenUI ==
  /\ nextId <= UITasks
  /\ onChatOpen
  /\ SetUI(MouseEffect(logStateChange(UI, "entering"), rive, rive))

onFirstInputFocusUI ==
  /\ nextId <= UITasks
  /\ onFirstInputFocus(UIPoint)
  /\ SetUI(IF isFirstFocus THEN logStateChange(UI, "first-focus") ELSE UI)

onUserSendsMessageUI ==
  /\ nextId <= UITasks
  /\ onUserSendsMessage(UIPoint)
  /\ SetUI(logStateChange(UI, "user-sending"))

onAIMessageShownUI ==
  /\ nextId <= UITasks
  /\ onAIMessageShown(UIPoint)
  /\ SetUI(logStateChange(UI, "returning"))

moveToUI ==
  /\ nextId <= UITasks
  /\ moveTo(UIPoint)
  /\ UNCHANGED uiVars

RiveLoadedUI == RiveLoaded /\ SetUI(MouseEffect(UI, FALSE, TRUE))

onAIMessageReady ==
  /\ fired' = FireNow("Pulse")
  /\ MoveFrame
  /\ SetUI(logStateChange(UI, "ai-ready"))

(* Movement executor with its expressive effects. *)

\* Lines 752-761: the gaze hint towards the target, relative to the center
\* the closure captured, armed before the cancellation check.
ResumeWaitRiveUI(i) ==
  /\ ResumeWaitRive(i)
  /\ LET t == [tasks[i] EXCEPT !.anim = currentAnimation]
         hint == calculateRelativeMousePosition(Target(t).x, Target(t).y,
                                                t.start.x, t.start.y)
         u1 == updateEyePosition(UI, hint)
     IN SetUI(IF ~Observed(t, tasks) /\ ~SkipShrink(t)
                THEN logStateChange(u1, "shrinking")
                ELSE u1)

\* Line 769: setRiveHidden, a dependency of the blink effect.
ResumeShrinkUI(i) == ResumeShrink(i) /\ SetUI(UI)

\* Line 842: setCenter, a dependency of the mouse-tracking effect.
ResumeTravelUI(i) ==
  /\ ResumeTravel(i)
  /\ SetUI(IF Observed(tasks[i], tasks) THEN UI ELSE MouseEffect(UI, rive, rive))

\* Lines 849-871: gaze reset, CharacterState.
ResumeRefreshUI(i) ==
  /\ ResumeRefresh(i)
  /\ SetUI(logStateChange(setEyePositionImmediate(UI, Gaze(50, 50), tasks[i].rv),
                          IF EndState(tasks[i]) = "Small_Loader"
                            THEN "small-loader" ELSE "idle"))

(* Direct triggers. *)

\* A direct trigger that also moves Position.
TriggerMoving(state, name) ==
  /\ fired' = FireNow(name)
  /\ center' = TOP_MIDDLE
  /\ UNCHANGED <<riveHidden, leadOpacity, trailOpacity, rive, animateSupported,
                 isFirstFocus, animationQueue, isAnimating, currentAnimation,
                 animationDebounce, timers, tasks, nextId>>
  /\ SetUI(logStateChange(UI, state))

\* triggerX: logStateChange(currentState, state), then trig?.fire().
Trigger(state, name) ==
  /\ fired' = FireNow(name)
  /\ MoveFrame
  /\ SetUI(logStateChange(UI, state))

triggerIdle == Trigger("idle", "Idle")
triggerUndo == Trigger("undo", "Undo")
triggerIdeaSpark == Trigger("idea-spark", "Idea_Spark")
triggerBigLoader == Trigger("big-loader", "Big_Loader")
triggerSmallLoader == Trigger("small-loader", "Small_Loader")
triggerShrink == Trigger("shrink", "Shrink")
triggerPulse == Trigger("pulse", "Pulse")
triggerPublish == Trigger("publish", "Publish")
triggerBlink == Trigger("blink", "Blink")

\* triggerBoredom that turns boredom on whatever the Bored input holds.
triggerBoredomOn ==
  /\ fired' = <<>>
  /\ MoveFrame
  /\ SetUI(setBoredomState(logStateChange(UI, "boredom"), TRUE, FALSE, rive, isTyping))

\* triggerBoredom: setBoredomState(boredTrig ? !boredTrig.value : false, false).
triggerBoredom ==
  /\ fired' = <<>>
  /\ MoveFrame
  /\ SetUI(setBoredomState(logStateChange(UI, "boredom"),
                           IF rive THEN ~boredValue ELSE FALSE, FALSE, rive, isTyping))

\* The Red, Green, Blue inputs exist iff the collaborator is ready; an input
\* given undefined either takes it or throws, which the try block swallows
\* before the remaining channels are written.
changeAstroColor(name) ==
  /\ fired' = <<>>
  /\ MoveFrame
  /\ IF name \notin DOMAIN ASTRO_COLORS \/ ~rive
       THEN UNCHANGED uiVars
       ELSE \/ SetUI([UI EXCEPT !.rgb = ASTRO_COLORS[name]])
            \/ /\ ASTRO_COLORS[name][1] = undefined
               /\ UNCHANGED uiVars

(* Gaze, typing and boredom. *)

\* onUserTyping without the clearTimeout of the previous typing timer.
onUserTypingNoClear(p) ==
  IF ~rive
    THEN UNCHANGED vars
    ELSE /\ fired' = <<>>
         /\ MoveFrame
         /\ LET u1 == [UI EXCEPT !.isTyping = TRUE]
                u2 == setBoredomState(u1, FALSE, TRUE, TRUE, isTyping)
                u3 == updateEyePosition(
                        u2, calculateRelativeMousePosition(p.x, p.y, center.x, center.y))
                u4 == [u3 EXCEPT !.typingTimers = Append(@, isTyping)]
            IN SetUI(IF isTyping THEN u4 ELSE MouseEffect(u4, TRUE, TRUE))

onUserTyping(p) ==
  IF ~rive
    THEN UNCHANGED vars
    ELSE /\ fired' = <<>>
         /\ MoveFrame
         /\ LET u1 == [UI EXCEPT !.isTyping = TRUE]
                u2 == setBoredomState(u1, FALSE, TRUE, TRUE, isTyping)
                u3 == updateEyePosition(
                        u2, calculateRelativeMousePosition(p.x, p.y, center.x, center.y))
                u4 == [u3 EXCEPT !.typingTimers = <<isTyping>>]
            IN SetUI(IF isTyping THEN u4 ELSE MouseEffect(u4, TRUE, TRUE))

\* The typingTimeout callback where the mouse-tracking effect does not run
\* again when isTyping changes.
TypingTimeoutFireStale(k) ==
  /\ k \in DOMAIN typingTimers
  /\ fired' = <<>>
  /\ MoveFrame
  /\ LET b == typingTimers[k]
         u1 == [UI EXCEPT !.typingTimers =
                  SubSeq(typingTimers, 1, k - 1) \o
                  SubSeq(typingTimers, k + 1, Len(typingTimers)),
                          !.isTyping = FALSE]
     IN SetUI(setBoredomState(u1, FALSE, TRUE, TRUE, b))

\* The typingTimeout timer at position k fires (lines 955-961); b is the
\* isTyping its closure captured.
TypingTimeoutFire(k) ==
  /\ k \in DOMAIN typingTimers
  /\ fired' = <<>>
  /\ MoveFrame
  /\ LET b == typingTimers[k]
         u1 == [UI EXCEPT !.typingTimers =
                  SubSeq(typingTimers, 1, k - 1) \o
                  SubSeq(typingTimers, k + 1, Len(typingTimers)),
                          !.isTyping = FALSE]
         u2 == setBoredomState(u1, FALSE, TRUE, TRUE, b)
     IN SetUI(IF isTyping THEN MouseEffect(u2, TRUE, TRUE) ELSE u2)

\* handleMouseMove without the test of isTyping.
MouseMoveAlways(p) ==
  IF ~rive
    THEN UNCHANGED vars
    ELSE /\ fired' = <<>>
         /\ MoveFrame
         /\ SetUI(setBoredomState(
                    updateEyePosition(
                      UI, calculateRelativeMousePosition(p.x, p.y, center.x, center.y)),
                    FALSE, TRUE, TRUE, isTyping))

\* handleMouseMove, registered by the mouse-tracking effect once the
\* collaborator is ready and re-registered with the current isTyping and center.
MouseMove(p) ==
  IF ~rive \/ isTyping
    THEN UNCHANGED vars
    ELSE /\ fired' = <<>>
         /\ MoveFrame
         /\ SetUI(setBoredomState(
                    updateEyePosition(
                      UI, calculateRelativeMousePosition(p.x, p.y, center.x, center.y)),
                    FALSE, TRUE, TRUE, isTyping))

\* The eyeDelayTimeout timer that sets the target p fires (line 659).
EyeDelayFire(p) ==
  /\ p \in eyeDelay
  /\ fired' = <<>>
  /\ MoveFrame
  /\ SetUI([UI EXCEPT !.eyeDelay = eyeDelay \ {p}, !.targetEyePos = p])

\* A boredomTimeout callback without the test of isTyping.
BoredomTimeoutFireAlways(b) ==
  /\ b \in boredomTimers
  /\ fired' = <<>>
  /\ MoveFrame
  /\ LET u1 == [UI EXCEPT !.boredomTimers = boredomTimers \ {b}]
     IN SetUI(setBoredomState(u1, TRUE, FALSE, TRUE, b))

\* A boredomTimeout callback that also hides the primary visual.
BoredomTimeoutFireHides(b) ==
  /\ b \in boredomTimers
  /\ fired' = <<>>
  /\ riveHidden' = TRUE
  /\ UNCHANGED <<center, leadOpacity, trailOpacity, rive, animateSupported,
                 isFirstFocus, animationQueue, isAnimating, currentAnimation,
                 animationDebounce, timers, tasks, nextId>>
  /\ LET u1 == [UI EXCEPT !.boredomTimers = boredomTimers \ {b}]
     IN SetUI(IF b THEN u1 ELSE setBoredomState(u1, TRUE, FALSE, TRUE, b))

\* The boredomTimeout timer whose closure captured isTyping = b fires
\* (lines 614-618).
BoredomTimeoutFire(b) ==
  /\ b \in boredomTimers
  /\ fired' = <<>>
  /\ MoveFrame
  /\ LET u1 == [UI EXCEPT !.boredomTimers = boredomTimers \ {b}]
     IN SetUI(IF b THEN u1 ELSE setBoredomState(u1, TRUE, FALSE, TRUE, b))

\* The blink timer callback without the test of isAnimating.current.
BlinkFireWhileMoving(b) ==
  /\ b \in blinkTimers
  /\ MoveFrame
  /\ IF ~b.riveHidden /\ ~b.isBored
       THEN fired' = <<"Blink">> /\ SetUI(logStateChange(UI, "blink"))
       ELSE fired' = <<>> /\ SetUI(UI)

\* A blinkInterval timer fires (lines 1056-1062): triggerBlink unless a
\* movement runs, the primary visual is hidden or the agent is bored, then
\* scheduleNextBlink arms the next timer with the same closure.  b holds the
\* riveHidden and isBored the closure captured; the Blink input exists in
\* every render that arms the timer.
BlinkFire(b) ==
  /\ b \in blinkTimers
  /\ MoveFrame
  /\ IF ~isAnimating /\ ~b.riveHidden /\ ~b.isBored
       THEN fired' = <<"Blink">> /\ SetUI(logStateChange(UI, "blink"))
       ELSE fired' = <<>> /\ SetUI(UI)

\* The host drives the lifecycle and the direct triggers.
NextTrig ==
  \/ onChatOpenUI
  \/ onFirstInputFocusUI
  \/ cancelAnimations /\ UNCHANGED uiVars
  \/ RiveLoadedUI
  \/ onAIMessageReady
  \/ \E i \in TaskIds : DebounceFire(i) /\ UNCHANGED uiVars
  \/ \E i \in TaskIds : ResumeWaitRiveUI(i)
  \/ \E i \in TaskIds : ResumeShrinkUI(i)
  \/ \E i \in TaskIds : ResumePreTravel(i) /\ UNCHANGED uiVars
  \/ \E i \in TaskIds : ResumeTravelUI(i)
  \/ \E i \in TaskIds : ResumeRefreshUI(i)
  \/ triggerIdle
  \/ triggerUndo
  \/ triggerIdeaSpark
  \/ triggerBoredom
  \/ triggerBigLoader
  \/ triggerSmallLoader
  \/ triggerShrink
  \/ triggerPulse
  \/ triggerPublish
  \/ triggerBlink
  \/ \E p \in eyeDelay : EyeDelayFire(p)
  \/ \E b \in BOOLEAN : BoredomTimeoutFire(b)
  \/ \E b \in blinkTimers : BlinkFire(b)

SpecTrig == Init /\ [][NextTrig]_vars

\* The user types and moves the pointer while the agent moves.
NextGaze ==
  \/ onChatOpenUI
  \/ moveToUI
  \/ cancelAnimations /\ UNCHANGED uiVars
  \/ RiveLoadedUI
  \/ \E i \in TaskIds : ResumeWaitRiveUI(i)
  \/ \E i \in TaskIds : ResumeShrinkUI(i)
  \/ \E i \in TaskIds : ResumePreTravel(i) /\ UNCHANGED uiVars
  \/ \E i \in TaskIds : ResumeTravelUI(i)
  \/ \E i \in TaskIds : ResumeRefreshUI(i)
  \/ triggerBoredom
  \/ \E name \in ColorNames : changeAstroColor(name)
  \/ \E p \in CaretArgs : onUserTyping(p)
  \/ \E k \in DOMAIN typingTimers : TypingTimeoutFire(k)
  \/ \E p \in PointerArgs : MouseMove(p)
  \/ \E p \in eyeDelay : EyeDelayFire(p)
  \/ \E b \in BOOLEAN : BoredomTimeoutFire(b)

SpecGaze == Init /\ [][NextGaze]_vars

(***************************************************************************)
(* The gaze tick loop (lines 1077-1106).  One evaluation of animate per     *)
(* rendering refresh; the effect re-registers it after every update, so it  *)
(* always reads the currentEyePos and targetEyePos of the latest render.    *)
(* The arithmetic is fixed point on the grid of currentEyePos; where a      *)
(* product falls between two grid points the result is either neighbour,    *)
(* which is coarser than the rounding of a double in either direction.      *)
(***************************************************************************)

\* EYE_TRACKING.SMOOTHING_FACTOR, in tenths.
SMOOTHING_FACTOR == 2

\* The threshold 0.1 of line 1085 on the grid of currentEyePos.
epsilon == (Sixths(1) * 1000) \div 10

Abs(v) == IF v < 0 THEN -v ELSE v

\* target - current on one axis; NaN if either is.
Diff(t, c) == IF t = NaN \/ c = NaN THEN NaN ELSE t - c

\* Math.abs(d) > 0.1, which is false for NaN.
Exceeds(d) == d # NaN /\ Abs(d) > epsilon

\* A step that is 1.2 times the remaining distance.
SmoothOvershoot(c, d) == {c + d + (d * SMOOTHING_FACTOR) \div 10}

\* currentEyePos + d * SMOOTHING_FACTOR on one axis.
Smooth(c, d) ==
  LET q == (d * SMOOTHING_FACTOR) \div 10
  IN IF d = NaN THEN {NaN}
     ELSE IF (d * SMOOTHING_FACTOR) % 10 = 0 THEN {c + q} ELSE {c + q, c + q + 1}

\* animate that updates whenever current differs from the target at all.
GazeTickNoEpsilon ==
  /\ rive
  /\ LET dx == Fine(targetEyePos).x - currentEyePos.x
         dy == Fine(targetEyePos).y - currentEyePos.y
     IN IF dx # 0 \/ dy # 0
          THEN \E nx \in Smooth(currentEyePos.x, dx), ny \in Smooth(currentEyePos.y, dy) :
                 /\ currentEyePos' = Pt(nx, ny)
                 /\ axisValue' = Pt(nx, ny)
                 /\ gazeTicks' = gazeTicks + 1
          ELSE UNCHANGED <<currentEyePos, axisValue, gazeTicks>>
  /\ UNCHANGED <<moveVars, currentState, isTyping, isBored, boredValue, targetEyePos,
                 eyeDelay, typingTimers, boredomTimers, rgb, blinkTimers, pathD>>

\* animate (lines 1080-1097): if either axis is more than the threshold away
\* from the target, move both axes and write both axis inputs.
GazeTick ==
  /\ rive
  /\ LET dx == Diff(Fine(targetEyePos).x, currentEyePos.x)
         dy == Diff(Fine(targetEyePos).y, currentEyePos.y)
     IN IF Exceeds(dx) \/ Exceeds(dy)
          THEN \E nx \in Smooth(currentEyePos.x, dx), ny \in Smooth(currentEyePos.y, dy) :
                 /\ currentEyePos' = Pt(nx, ny)
                 /\ axisValue' = Pt(nx, ny)
                 /\ gazeTicks' = gazeTicks + 1
          ELSE UNCHANGED <<currentEyePos, axisValue, gazeTicks>>
  /\ UNCHANGED <<moveVars, currentState, isTyping, isBored, boredValue, targetEyePos,
                 eyeDelay, typingTimers, boredomTimers, rgb, blinkTimers, pathD>>

\* Gaze values, on each axis, from which the tick loop is started.
GazeInputs == {0, 10, 50, 100}

\* The collaborator is ready, the agent rests where it was constructed, and
\* the gaze current and target are anywhere in the 0-100 range.
InitTick ==
  /\ InitMove
  /\ InitUI
  /\ rive = TRUE
  /\ boredomTimers = {FALSE}
  /\ blinkTimers = {[riveHidden |-> FALSE, isBored |-> FALSE]}
  /\ \E a, b \in GazeInputs : targetEyePos = Gaze(a, b)
  /\ \E a, b \in GazeInputs : currentEyePos = Fine(Gaze(a, b))

NextTick == GazeTick

SpecTick == InitTick /\ [][NextTick]_vars

(***************************************************************************)
(* The timers together: the movement-debounce, typing, boredom, gaze-delay *)
(* and blink timers and the gaze tick loop, while the user types and moves *)
(* the pointer and debounced movements run.                                *)
(***************************************************************************)

\* Updates the gaze tick loop makes in one behaviour of SpecTimers.
MaxGazeTicks == 1

\* Caret positions the host passes to onUserTyping, a NaN among them.
AnyCaretArgs == CaretArgs \cup {Pt(NaN, 40)}

NextTimers ==
  \/ onFirstInputFocusUI
  \/ onAIMessageShownUI
  \/ RiveLoadedUI
  \/ \E i \in TaskIds : DebounceFire(i) /\ UNCHANGED uiVars
  \/ \E i \in TaskIds : ResumeSettle(i) /\ UNCHANGED uiVars
  \/ \E i \in TaskIds : ResumeWaitRiveUI(i)
  \/ \E i \in TaskIds : ResumeShrinkUI(i)
  \/ \E i \in TaskIds : ResumePreTravel(i) /\ UNCHANGED uiVars
  \/ \E i \in TaskIds : ResumeTravelUI(i)
  \/ \E i \in TaskIds : ResumeRefreshUI(i)
  \/ \E p \in AnyCaretArgs : onUserTyping(p)
  \/ \E k \in DOMAIN typingTimers : TypingTimeoutFire(k)
  \/ \E p \in PointerArgs : MouseMove(p)
  \/ \E p \in eyeDelay : EyeDelayFire(p)
  \/ \E b \in BOOLEAN : BoredomTimeoutFire(b)
  \/ \E b \in blinkTimers : BlinkFire(b)
  \/ gazeTicks < MaxGazeTicks /\ GazeTick

SpecTimers == Init /\ [][NextTimers]_vars

(***************************************************************************)
(* The curve of a trajectory (buildPathD, lines 481-498).  The unit normal  *)
(* divides by the length of the displacement, so the control points are     *)
(* kept multiplied by scale = 10000 * len, and the displacements are those  *)
(* whose length is a whole number, for which this is exact.                 *)
(***************************************************************************)

SWAY_AMOUNT == 100

\* ANIMATION_CONFIG.CONTROL_POINT_1 and CONTROL_POINT_2, in hundredths.
CONTROL_POINT_1 == 33
CONTROL_POINT_2 == 66

\* 0.85 + Math.random() * 0.3, in hundredths: Math.random() is in [0, 1).
RandomFactors == {85, 100, 114}

\* Math.hypot(dx, dy), where it is a whole number.
HasHypot(dx, dy) == \E h \in 0..(Abs(dx) + Abs(dy)) : h * h = dx * dx + dy * dy
Hypot(dx, dy) == CHOOSE h \in 0..(Abs(dx) + Abs(dy)) : h * h = dx * dx + dy * dy

Max(a, b) == IF a >= b THEN a ELSE b

\* buildPathD with both control points pushed to the same side.
buildPathDSameSide(start, end, f) ==
  LET dx == end.x - start.x
      dy == end.y - start.y
      len == Max(1, Hypot(dx, dy))
      k == 10000 * len
  IN [start |-> start, end |-> end, scale |-> k,
      c1 |-> Pt(k * start.x + 100 * len * CONTROL_POINT_1 * dx - 100 * dy * SWAY_AMOUNT * f,
                k * start.y + 100 * len * CONTROL_POINT_1 * dy + 100 * dx * SWAY_AMOUNT * f),
      c2 |-> Pt(k * start.x + 100 * len * CONTROL_POINT_2 * dx - 65 * dy * SWAY_AMOUNT * f,
                k * start.y + 100 * len * CONTROL_POINT_2 * dy + 65 * dx * SWAY_AMOUNT * f)]

\* buildPathD(start, end) where Math.random() makes the sway factor f: the
\* normal is (-dy, dx) / len, the sway SWAY_AMOUNT * f / 100, the first
\* control point is pushed by the sway along the normal and the second by
\* 0.65 of it against the normal.  The result stands for the string
\* "M start C c1 c2 end".
buildPathD(start, end, f) ==
  LET dx == end.x - start.x
      dy == end.y - start.y
      len == Max(1, Hypot(dx, dy))
      k == 10000 * len
  IN [start |-> start, end |-> end, scale |-> k,
      c1 |-> Pt(k * start.x + 100 * len * CONTROL_POINT_1 * dx - 100 * dy * SWAY_AMOUNT * f,
                k * start.y + 100 * len * CONTROL_POINT_1 * dy + 100 * dx * SWAY_AMOUNT * f),
      c2 |-> Pt(k * start.x + 100 * len * CONTROL_POINT_2 * dx + 65 * dy * SWAY_AMOUNT * f,
                k * start.y + 100 * len * CONTROL_POINT_2 * dy - 65 * dx * SWAY_AMOUNT * f)]

\* Coordinates of the start and end points the curve is built for.
PathCoords == {10, 13, 14, 18, 22}

PathPoints == {Pt(a, b) : a, b \in PathCoords}

\* Line 805: the movement builds the curve from start to end.
BuildPath(start, end, f) ==
  /\ HasHypot(end.x - start.x, end.y - start.y)
  /\ pathD' = buildPathD(start, end, f)
  /\ UNCHANGED <<moveVars, currentState, isTyping, isBored, boredValue, targetEyePos,
                 eyeDelay, typingTimers, boredomTimers, rgb, currentEyePos, axisValue,
                 gazeTicks, blinkTimers>>

NextPath == \E start, end \in PathPoints, f \in RandomFactors : BuildPath(start, end, f)

SpecPath == Init /\ [][NextPath]_vars

(***************************************************************************)
(* Properties                                                              *)
(***************************************************************************)

\* Suspension points at which the executor is said to observe cancellation.
Checkpoints == {"settle", "waitRive", "shrink", "preTravel", "travel", "refresh"}

\* Task i is resumed by the step: its function runs from one await onwards.
Resumed(i) == tasks[i].pc \in Suspended /\ tasks'[i].pc # tasks[i].pc

\* The step leaves Position, visibility and the collaborator untouched.
NoMovementEffect ==
  /\ UNCHANGED <<center, riveHidden, leadOpacity, trailOpacity>>
  /\ fired' = <<>>

\* C1: at most one movement task is executing at any time: no task is started
\* while an earlier one, cancelled or not, has not returned.
C1_MutualExclusion == Cardinality(Executing) <= 1

\* A cancelled task is still in flight while a later request waits in the queue.
C1_Witness ==
  \E i \in Executing : tasks[i].cancelled /\ animationQueue # <<>>

\* C2: once the engine has settled (no task in flight, nothing pending, no
\* debounce timer) the primary visual is visible and the lead and trail
\* indicators are hidden.  Stated for environments where Element.animate
\* exists, so that no task failure is involved.
C2_SettledVisible ==
  (animateSupported /\ Executing = {} /\ animationQueue = <<>> /\ timers = {})
    => (~riveHidden /\ leadOpacity = 0 /\ trailOpacity = 0)

\* C3: a task that was cancelled while suspended at a checkpoint returns when
\* it is resumed and performs none of the later steps.
C3_CancelObserved ==
  [][\A i \in TaskIds :
       (Resumed(i) /\ tasks[i].pc \in Checkpoints /\ tasks[i].cancelled)
         => (tasks'[i].pc = "done" /\ NoMovementEffect)]_vars

\* C4: after enqueues with cancelPrevious, once the superseded in-flight task
\* reaches its next checkpoint, the last task issued is the one executing and
\* nothing is pending.
C4_CancelPreviousSettles ==
  [][\A i \in TaskIds :
       (/\ Resumed(i) /\ tasks[i].pc \in Checkpoints /\ tasks[i].cancelled
        /\ Len(animationQueue) = 1
        /\ tasks[Head(animationQueue)].op = "chatOpen")
         => (Executing' = {Head(animationQueue)} /\ animationQueue' = <<>>)]_vars

\* C5: debounced requests issued inside the window of the previous one
\* collapse into the last one issued: after each debounced call the only
\* pending debounce timer is that call's, and when it fires exactly its task is
\* pushed (last in the queue, or started at once when the engine is idle).
C5_DebounceCollapses ==
  [][/\ \A i \in TaskIds :
          (tasks[i].pc = "none" /\ tasks'[i].pc = "debounced") => timers' = {i}
     /\ \A i \in TaskIds :
          (i \in timers /\ i \notin timers' /\ tasks'[i].pc # "dropped")
            => /\ timers' = {}
               /\ IF isAnimating
                    THEN animationQueue' = Append(animationQueue, i)
                    ELSE Executing' = {i} /\ animationQueue' = <<>>]_vars

\* An earlier debounced request was collapsed and the task of the last
\* debounced call is executing.
C5_Witness ==
  /\ \E i \in TaskIds : tasks[i].pc = "dropped"
  /\ animationDebounce \in Executing

\* C6: when the function of a task throws, the queue resets the in-flight
\* marker and the guard and starts the next pending task.  (In an environment
\* without Element.animate the step that hides the primary visual throws.)
C6_FailureHandled ==
  [][\A i \in TaskIds :
       (/\ ~animateSupported /\ tasks[i].pc \in {"waitRive", "shrink"}
        /\ tasks'[i].pc = "done" /\ riveHidden')
         => IF animationQueue = <<>>
              THEN ~isAnimating' /\ currentAnimation' = 0 /\ Executing' = {}
              ELSE /\ isAnimating'
                   /\ currentAnimation' = Head(animationQueue)
                   /\ Executing' = {Head(animationQueue)}
                   /\ animationQueue' = Tail(animationQueue)]_vars

\* A task has thrown (the primary visual is hidden although nothing can travel)
\* and a later task is in flight with the guard set.
C6_Witness ==
  /\ ~animateSupported /\ riveHidden
  /\ \E i \in TaskIds : tasks[i].pc = "done"
  /\ \E j \in Executing : currentAnimation = j /\ isAnimating

\* C7: immediately after cancelAnimations() the pending queue is empty and
\* every task in flight at the time of the call has its cancelled flag set.
C7_CancelAnimations ==
  [][cancelAnimations =>
       /\ animationQueue' = <<>>
       /\ \A i \in Executing : tasks'[i].pc = tasks[i].pc /\ tasks'[i].cancelled]_vars

\* cancelAnimations() has emptied a non-empty queue and marked the task in flight.
C7_Witness ==
  /\ nextId > MaxTasks
  /\ animationQueue = <<>>
  /\ currentAnimation = 0
  /\ \E i \in Executing : tasks[i].cancelled
  /\ \E j \in TaskIds : tasks[j].pc = "flushed"

\* The anchor a request asks for, from the caller's coordinates.
RequestedAnchor(t) ==
  IF t.op = "chatOpen" THEN Pt(innerWidth \div 2 - 160, innerHeight \div 2 - 120)
  ELSE IF t.op = "moveTo" THEN Pt(t.arg.x, t.arg.y)
  ELSE IF t.op = "userSends" THEN Pt(t.arg.x + 13, t.arg.y + 20)
  ELSE Pt(t.arg.x + 13, t.arg.y - 45)

\* C8: at the Arrived step of a task Position becomes exactly the anchor that
\* was requested for it, whatever was called while it was in flight.
C8_ArrivesAtTarget ==
  [][\A i \in TaskIds :
       (tasks[i].pc = "travel" /\ tasks'[i].pc = "refresh")
         => center' = RequestedAnchor(tasks[i])]_vars

\* A task has arrived at an anchor that differs from where it started, with
\* another request made while it was in flight.
C8_Witness ==
  \E i \in TaskIds :
    /\ tasks[i].pc = "refresh"
    /\ center = RequestedAnchor(tasks[i])
    /\ center # tasks[i].start
    /\ animationQueue # <<>>

\* C9: moveTo(x, y) with finite coordinates, a 0 included, is unconditional:
\* unless it is cancelled (or the environment makes it throw) its task returns
\* only after it has arrived at (x, y), firing Idle when the collaborator was
\* ready.
C9_MoveToUnconditional ==
  [][\A i \in TaskIds :
       (/\ tasks[i].op = "moveTo" /\ tasks[i].arg.x # NaN /\ tasks[i].arg.y # NaN
        /\ animateSupported /\ ~tasks[i].cancelled
        /\ tasks[i].pc \in Suspended /\ tasks'[i].pc = "done")
         => (/\ tasks[i].pc = "refresh"
             /\ center = tasks[i].arg
             /\ (tasks[i].rv => fired' = <<"Idle">>))]_vars

\* The request carries a missing or NaN coordinate.
NaNRequest(t) == t.pc # "none" /\ t.op # "chatOpen" /\ (t.arg.x = NaN \/ t.arg.y = NaN)

\* C10 as stated: a request with a missing or NaN coordinate is rejected at
\* the entry point: it is never in the pending queue and never in flight.
C10_RejectedAtEntry ==
  \A i \in TaskIds :
    NaNRequest(tasks[i]) => tasks[i].pc \notin ({"queued"} \cup Suspended)

\* C10 amended: such a request is queued and dequeued like any other and is
\* rejected when its task reaches moveToPosition: it never gets past the
\* validity test, and no step of it touches Position, visibility or the
\* collaborator.
C10_RejectedInTask ==
  [][\A i \in TaskIds :
       /\ NaNRequest(tasks'[i])
            => tasks'[i].pc \in {"debounced", "queued", "settle", "rejected"}
       /\ (NaNRequest(tasks[i]) /\ Resumed(i))
            => (tasks'[i].pc \in {"rejected", "done"} /\ NoMovementEffect)]_vars

\* A request with a NaN coordinate is in flight with the guard set while a
\* later request waits behind it.
C10_Witness ==
  \E i \in TaskIds :
    /\ NaNRequest(tasks[i]) /\ tasks[i].pc = "rejected"
    /\ isAnimating /\ currentAnimation = i /\ animationQueue # <<>>

\* C11: onFirstInputFocus is one-shot.  Once the first-focus flag is consumed
\* it stays consumed; a first-focus request is created, and CharacterState
\* becomes first-focus, only by the call that consumes the flag; every later
\* call changes nothing at all, whatever was called in between.
C11_FirstFocusOneShot ==
  [][/\ ~isFirstFocus => ~isFirstFocus'
     /\ \A i \in TaskIds :
          (tasks[i].pc = "none" /\ tasks'[i].pc # "none" /\ tasks'[i].op = "firstFocus")
            => (isFirstFocus /\ ~isFirstFocus')
     /\ (currentState' = "first-focus" /\ currentState # "first-focus") => isFirstFocus
     /\ (~isFirstFocus /\ onFirstInputFocusUI) => UNCHANGED vars]_vars

\* The flag is consumed, the first-focus request is in flight and has been
\* cancelled by cancelAnimations, and another request would still be accepted.
C11_Witness ==
  /\ ~isFirstFocus /\ nextId <= UITasks
  /\ \E i \in Executing : tasks[i].op = "firstFocus" /\ tasks[i].cancelled

\* C12: onChatOpen() cancels all prior movement work: while its move to the
\* top-middle anchor is pending or in flight, no request made before the call
\* is pushed, started or resumed to any effect: the only change such a request
\* undergoes is to end, without touching Position, visibility or the
\* collaborator.
C12_ChatOpenCancelsPrior ==
  [][\A j \in TaskIds : \A i \in 1..(j - 1) :
       (tasks[j].op = "chatOpen" /\ tasks[j].pc \in ({"queued"} \cup Suspended))
         => /\ tasks'[i].pc # tasks[i].pc
                 => tasks'[i].pc \in {"done", "dropped", "flushed"}
            /\ Resumed(i) => NoMovementEffect]_vars

\* The end-state trigger an operation asks for.
RequestedEndState(op) == IF op = "userSends" THEN "Small_Loader" ELSE "Idle"

\* The triggers moveToPosition can fire as an end state.
EndTriggers == {"Idle", "Small_Loader", "Pulse"}

\* Task i completes in this step: it returns from the end of moveToPosition.
Completes(i) == tasks[i].pc = "refresh" /\ tasks'[i].pc = "done"

LeavesWaitRive(i) == tasks[i].pc = "waitRive" /\ Resumed(i)

DirectTrigger ==
  \/ onAIMessageReady
  \/ triggerIdle \/ triggerUndo \/ triggerIdeaSpark \/ triggerBoredom
  \/ triggerBigLoader \/ triggerSmallLoader \/ triggerShrink
  \/ triggerPulse \/ triggerPublish \/ triggerBlink

\* C15: onAIMessageReady and the direct triggers cause no movement: they leave
\* Position, the visibility of the primary visual and of the dots, the pending
\* queue, the debounce timer, the in-flight task and every cancelled flag as
\* they are.
C15_TriggersNoMovement ==
  [][DirectTrigger =>
       UNCHANGED <<center, riveHidden, leadOpacity, trailOpacity, animationQueue,
                   isAnimating, currentAnimation, animationDebounce, timers,
                   tasks>>]_vars

\* Undo has just been fired while a cancelled task is in flight and a
\* debounced request waits for its timer.
C15_Witness ==
  /\ fired = <<"Undo">>
  /\ \E i \in Executing : tasks[i].cancelled
  /\ timers # {}

\* The names of the colour presets.
Presets == {"green", "pink", "purple", "black"}

\* C16: changeAstroColor(name) with a name that is no preset writes nothing
\* to the Red, Green, Blue inputs; with a preset and a ready collaborator it
\* sets the three channels to the preset's values.
C16_UnknownColourIgnored ==
  [][\A name \in ColorNames :
       changeAstroColor(name)
         => IF name \in Presets
              THEN rive => rgb' = ASTRO_COLORS[name]
              ELSE rgb' = rgb]_vars

\* C17: under repeated onUserTyping calls TypingState is true from the first
\* call until the timer armed by the last call fires: each call leaves
\* TypingState true with exactly its own inactivity timer pending, TypingState
\* is true exactly while that timer is pending, and it becomes false only by
\* that timer firing.
C17_TypingWindow ==
  [][/\ (rive /\ \E p \in CaretArgs : onUserTyping(p))
          => (isTyping' /\ Len(typingTimers') = 1)
     /\ isTyping' = (typingTimers' # <<>>)
     /\ (isTyping /\ ~isTyping')
          => (Len(typingTimers) = 1 /\ typingTimers' = <<>>)]_vars

\* A call was made while TypingState was already true: the timer pending is
\* that call's.
C17_Witness == isTyping /\ typingTimers = <<TRUE>>

\* C18: every onUserTyping(caretX, caretY) call made with the collaborator
\* ready, the one that turns TypingState on included, leaves a delayed gaze
\* update pending whose target is the caret position relative to Position.
C18_CaretGaze ==
  [][\A p \in CaretArgs :
       (rive /\ onUserTyping(p))
         => eyeDelay' = {calculateRelativeMousePosition(p.x, p.y, center.x, center.y)}]_vars

\* C19: while TypingState is true a pointer move changes neither the gaze
\* target nor the pending delayed gaze update.
C19_PointerIgnoredWhileTyping ==
  [][\A p \in PointerArgs :
       (isTyping /\ MouseMove(p)) => UNCHANGED <<targetEyePos, eyeDelay>>]_vars

\* The user is typing, a caret-driven gaze update is pending, and the pointer
\* handler is registered.
C19_Witness ==
  /\ isTyping /\ rive
  /\ \E p \in CaretArgs :
       eyeDelay = {calculateRelativeMousePosition(p.x, p.y, center.x, center.y)}
  /\ center = TOP_MIDDLE

\* C20: when BoredomState becomes true the gaze target is the boredom
\* fallback target, and while BoredomState stays true no delayed gaze update
\* (pointer, caret or movement hint) that was pending changes the target.
C20_BoredomGazeHolds ==
  [][/\ (~isBored /\ isBored') => targetEyePos' = BOREDOM_EYE_PLACEMENT
     /\ \A p \in eyeDelay :
          (isBored /\ isBored' /\ EyeDelayFire(p)) => targetEyePos' = targetEyePos]_vars

\* A user interaction that the boredom logic hears of: a pointer move, a
\* keystroke, or the reset the host has, triggerBoredom while bored.
BoredomInteraction ==
  \/ \E p \in PointerArgs : MouseMove(p)
  \/ \E p \in CaretArgs : onUserTyping(p)
  \/ triggerBoredom

\* C21: with the collaborator ready, a pointer move, an onUserTyping call or
\* an explicit reset made while BoredomState is true sets BoredomState to
\* false and leaves a freshly armed boredom inactivity timer pending.
C21_InteractionClearsBoredom ==
  [][(rive /\ isBored /\ BoredomInteraction)
       => (~isBored' /\ boredomTimers' # {})]_vars

\* The cancellation check that task i makes when it is resumed finds the
\* entry it read from currentAnimation.current cancelled.
SeesCancelled(i) ==
  Observed(IF tasks[i].pc = "waitRive"
             THEN [tasks[i] EXCEPT !.anim = currentAnimation]
             ELSE tasks[i], tasks)

\* C26: a movement requested while the collaborator is missing is not turned
\* away and fires nothing on it; where the platform can animate and no
\* cancellation is observed it goes through every step, from the collaborator
\* wait to the shrink wait (or straight to the hide step for onAIMessageShown),
\* the pre-travel delay, the travel and the arrival with Position = target and
\* the primary visual visible; a direct trigger called while the collaborator
\* is missing fires nothing and changes nothing but CharacterState and
\* BoredomState.
C26_MissingCollaboratorTolerated ==
  [][/\ \A i \in TaskIds :
          (tasks'[i].pc \in Suspended /\ ~tasks'[i].rv) => tasks'[i].pc # "rejected"
     /\ \A i \in TaskIds :
          (Resumed(i) /\ ~tasks[i].rv /\ animateSupported
             /\ ~SeesCancelled(i))
            => /\ fired' = <<>>
               /\ tasks[i].pc = "waitRive"
                    => tasks'[i].pc = IF SkipShrink(tasks[i]) THEN "preTravel" ELSE "shrink"
               /\ tasks[i].pc = "shrink" => tasks'[i].pc = "preTravel"
               /\ tasks[i].pc = "preTravel" => tasks'[i].pc = "travel"
               /\ tasks[i].pc = "travel"
                    => /\ tasks'[i].pc = "refresh"
                       /\ center' = Target(tasks[i])
                       /\ ~riveHidden'
               /\ tasks[i].pc = "refresh" => tasks'[i].pc = "done"
     /\ (~rive /\ DirectTrigger)
          => /\ fired' = <<>>
             /\ UNCHANGED <<moveVars, boredValue, targetEyePos, eyeDelay,
                            typingTimers, boredomTimers, rgb>>]_vars

\* A task requested before the collaborator was ready has arrived while the
\* collaborator is still missing.
C26_Witness ==
  /\ ~rive
  /\ \E i \in Executing :
       /\ tasks[i].pc = "refresh" /\ ~tasks[i].rv /\ ~tasks[i].cancelled
       /\ center = Target(tasks[i]) /\ ~riveHidden

\* C27: with the collaborator ready a call of triggerBoredom flips
\* BoredomState, so that two successive calls restore it, the Bored input
\* follows BoredomState, and the call starts no movement.
C27_BoredomToggles ==
  [][/\ rive' => boredValue' = isBored'
     /\ (rive /\ triggerBoredom)
          => /\ isBored' = ~isBored
             /\ UNCHANGED <<center, riveHidden, leadOpacity, trailOpacity,
                            animationQueue, isAnimating, currentAnimation,
                            animationDebounce, timers, tasks, nextId>>]_vars

\* triggerBoredom has turned boredom on with the collaborator ready.
C27_Witness == rive /\ isBored /\ boredValue /\ currentState = "boredom"

\* Task i arrives in this step.
Arrives(i) == tasks[i].pc = "travel" /\ tasks'[i].pc = "refresh"

\* onChatOpen is called in this step.
ChatOpenCalled ==
  \E j \in TaskIds : tasks[j].pc = "none" /\ tasks'[j].pc # "none"
                       /\ tasks'[j].op = "chatOpen"

\* C29 as stated: Position changes only at the arrival step of a movement
\* task.
C29_PositionOnlyAtArrival ==
  [][center' # center => \E i \in TaskIds : Arrives(i)]_vars

\* C29: Position changes only at the arrival step of a movement task, which
\* sets it to the task's target, and in a call of onChatOpen, which sets it to
\* the off-screen anchor at once, also while a task is between its hide step
\* and its arrival.
C29_PositionAtArrivalOrChatOpen ==
  [][center' # center
       => \/ \E i \in TaskIds : Arrives(i) /\ center' = Target(tasks[i])
          \/ ChatOpenCalled /\ center' = OFF_SCREEN_RIGHT]_vars

\* onChatOpen was called while a task was between hide and arrival: Position
\* is the off-screen anchor although that task started elsewhere.
C29_Witness ==
  /\ center = OFF_SCREEN_RIGHT
  /\ \E i \in Executing :
       /\ tasks[i].pc \in {"preTravel", "travel"}
       /\ tasks[i].cancelled
       /\ tasks[i].start # OFF_SCREEN_RIGHT

\* Task i hides the primary visual in this step (line 769), where the start
\* point of its trajectory is taken (line 770).
Hides(i) ==
  /\ tasks[i].pc \in {"waitRive", "shrink"}
  /\ tasks'[i].pc = "preTravel"

\* C30: the start point of a task's trajectory equals Position at the moment
\* the task hides the primary visual.
C30_StartIsPositionAtHide ==
  [][\A i \in TaskIds : Hides(i) => tasks[i].start = center]_vars

\* The markup the component renders: what the lead dot, the trail dots and
\* the wrapper of the primary visual are given as pointer-events and opacity.
Rendered ==
  [lead |-> [pointerEvents |-> "none", opacity |-> leadOpacity],
   trail |-> [pointerEvents |-> "none", opacity |-> trailOpacity],
   wrapper |-> [pointerEvents |-> "auto", opacity |-> IF riveHidden THEN 0 ELSE 1]]

\* A blinkInterval timer fires in this step and its callback fires Blink.
BlinkScheduled == fired' = <<"Blink">> /\ \E b \in blinkTimers : BlinkFire(b)

C28_NoPointerInterception ==
  \A e \in DOMAIN Rendered : Rendered[e].pointerEvents = "none"

\* v lies between a and t, ends included.
Between(a, v, t) == (a <= v /\ v <= t) \/ (t <= v /\ v <= a)

\* C23: on every gaze tick that updates, on each axis the new gaze current
\* lies between the previous current and the target, ends included, for
\* every current and target in the 0-100 range: the distance to the target
\* does not grow and the target is not passed.
C23_TickBetween ==
  [][gazeTicks' # gazeTicks
       => /\ Between(currentEyePos.x, currentEyePos'.x, Fine(targetEyePos).x)
          /\ Between(currentEyePos.y, currentEyePos'.y, Fine(targetEyePos).y)]_vars

\* A tick has moved the gaze current up on one axis and down on the other.
C23_Witness ==
  /\ gazeTicks = 1
  /\ currentEyePos.x > 0 /\ currentEyePos.x < Fine(targetEyePos).x
  /\ currentEyePos.y < Fine(Gaze(100, 100)).y /\ currentEyePos.y > Fine(targetEyePos).y

\* The gaze current is within the threshold of the target on both axes.
WithinEpsilon ==
  /\ Abs(Fine(targetEyePos).x - currentEyePos.x) <= epsilon
  /\ Abs(Fine(targetEyePos).y - currentEyePos.y) <= epsilon

\* Ticks after which a distance d is within the threshold if every tick takes
\* the shorter of its two possible steps.
RECURSIVE TicksFrom(_)
TicksFrom(d) ==
  IF d <= epsilon THEN 0 ELSE 1 + TicksFrom(d - (d * SMOOTHING_FACTOR) \div 10)

\* The ticks needed from the largest distance the 0-100 range allows.
TickBound == TicksFrom(Fine(Gaze(100, 100)).x)

\* C24: with the gaze target fixed the tick loop makes at most TickBound
\* updates, after which the gaze current is within the threshold (0.1) of the
\* target on both axes; once it is, a tick changes neither the gaze current
\* nor the axis inputs.
C24_TickSettles ==
  /\ [](gazeTicks <= TickBound /\ (gazeTicks = TickBound => WithinEpsilon))
  /\ [][WithinEpsilon => UNCHANGED <<currentEyePos, axisValue>>]_vars

\* The tick loop has settled after as many updates as the bound allows.
C24_Witness == gazeTicks = TickBound /\ WithinEpsilon

\* Which side of the straight line from the start to the end of curve p the
\* point c (multiplied by p.scale) lies on: the sign of the cross product.
Side(p, c) ==
  LET v == (p.end.x - p.start.x) * (c.y - p.scale * p.start.y)
           - (p.end.y - p.start.y) * (c.x - p.scale * p.start.x)
  IN IF v > 0 THEN 1 ELSE IF v < 0 THEN -1 ELSE 0

\* C25: for start # end both control points of the curve lie strictly off
\* the straight line through start and end, on opposite sides of it; for
\* start = end both control points are the start point.
C25_ControlPointsOpposite ==
  pathD # <<>> =>
    IF pathD.start # pathD.end
      THEN /\ Side(pathD, pathD.c1) # 0
           /\ Side(pathD, pathD.c2) = -Side(pathD, pathD.c1)
      ELSE /\ pathD.c1 = Pt(pathD.scale * pathD.start.x, pathD.scale * pathD.start.y)
           /\ pathD.c2 = pathD.c1

\* A curve was built for a displacement that is neither horizontal nor
\* vertical.
C25_Witness ==
  /\ pathD # <<>>
  /\ pathD.start.x # pathD.end.x /\ pathD.start.y # pathD.end.y

\* Task j starts executing in this step: its queued function is called.
Starts(j) == tasks[j].pc \notin Suspended /\ tasks'[j].pc \in Suspended

\* C35: pending tasks are executed in the order in which they were pushed and
\* one at a time: a push appends at the end of the queue (a moveTo call at
\* once, in call order), the queue otherwise only loses its head or is emptied
\* by a cancellation, and the task that starts is the head of the queue (or
\* the task just pushed onto an empty queue) and is then the only one
\* executing.
C35_Fifo ==
  [][/\ \A j \in TaskIds :
          Starts(j)
            => /\ Executing' = {j}
               /\ IF tasks[j].pc = "queued"
                    THEN /\ animationQueue # <<>> /\ Head(animationQueue) = j
                         /\ animationQueue' = Tail(animationQueue)
                    ELSE animationQueue = <<>> /\ animationQueue' = <<>>
     /\ \A j \in TaskIds :
          (tasks[j].pc # "queued" /\ tasks'[j].pc = "queued")
            => animationQueue' \in {Append(animationQueue, j), <<j>>}
     /\ \A j \in TaskIds :
          (tasks[j].pc = "none" /\ tasks'[j].pc # "none" /\ tasks'[j].op = "moveTo")
            => \/ Starts(j)
               \/ animationQueue' = Append(animationQueue, j)
     /\ \/ animationQueue' \in {animationQueue, <<>>}
        \/ animationQueue # <<>> /\ animationQueue' = Tail(animationQueue)
        \/ \E j \in TaskIds : animationQueue' \in {Append(animationQueue, j), <<j>>}]_vars

\* The second of three moveTo calls is executing after the first has
\* returned, and the third is still waiting.
C35_Witness ==
  /\ tasks[1].pc = "done"
  /\ tasks[2].pc \in Suspended /\ tasks[2].op = "moveTo"
  /\ animationQueue = <<3>> /\ tasks[3].op = "moveTo"

\* C36: with timers and animation completions eventually firing, every task
\* that is in the queue eventually returns or is removed by a cancellation,
\* and (the host issuing finitely many requests) eventually isAnimating is
\* false and the queue is empty for good.
C36_QueueDrains ==
  /\ \A i \in TaskIds :
       (tasks[i].pc = "queued") ~> (tasks[i].pc \in {"done", "flushed"})
  /\ <>[](~isAnimating /\ animationQueue = <<>> /\ Executing = {})

\* Every request has been issued, tasks that waited in the queue have
\* returned, and the queue has drained.
C36_Witness ==
  /\ nextId > MaxTasks
  /\ \A i \in TaskIds : tasks[i].pc = "done"
  /\ ~isAnimating /\ animationQueue = <<>> /\ timers = {}

\* The step issues a movement request.
Requested == nextId' # nextId

\* C37: cancelAnimations() leaves nothing behind that starts a task without a
\* new request: a task starts only in the step that requests it, when its
\* debounce timer fires or when its turn comes in the queue, and after
\* cancelAnimations() the queue is empty and no debounce timer is pending.
C37_CancelStopsStarts ==
  [][/\ cancelAnimations => (animationQueue' = <<>> /\ timers' = {})
     /\ \A j \in TaskIds :
          Starts(j) => (Requested \/ j \in timers \/ tasks[j].pc = "queued")]_vars

\* C38: the debounce timer is shared: a call of onUserSendsMessage or
\* onAIMessageShown made while the first-focus move waits in its debounce
\* window drops that move, a dropped move is never pushed, and once the
\* first-focus flag is consumed no call queues a first-focus move.
C38_SharedDebounce ==
  [][/\ \A i, j \in TaskIds :
          (/\ tasks[i].pc = "debounced" /\ tasks[i].op = "firstFocus"
           /\ tasks[j].pc = "none" /\ tasks'[j].pc # "none"
           /\ tasks'[j].op \in {"userSends", "aiShown"})
            => tasks'[i].pc = "dropped"
     /\ \A i \in TaskIds : tasks[i].pc = "dropped" => tasks'[i].pc = "dropped"
     /\ ~isFirstFocus
          => /\ ~isFirstFocus'
             /\ \A j \in TaskIds :
                  (tasks[j].pc = "none" /\ tasks'[j].pc # "none")
                    => tasks'[j].op # "firstFocus"]_vars

\* The first-focus move was dropped by a later debounced call, whose task is
\* now in flight, and the first-focus flag is consumed.
C38_Witness ==
  /\ ~isFirstFocus
  /\ tasks[1].pc = "dropped"
  /\ \E j \in Executing : tasks[j].op \in {"userSends", "aiShown"}
  /\ \A j \in TaskIds : tasks[j].pc # "none" => tasks[j].op # "firstFocus"

\* The suspension point that follows pc in a task that goes on.
NextPc(t, pc) ==
  IF pc = "settle" THEN "waitRive"
  ELSE IF pc = "waitRive" THEN (IF SkipShrink(t) THEN "preTravel" ELSE "shrink")
  ELSE IF pc = "shrink" THEN "preTravel"
  ELSE IF pc = "preTravel" THEN "travel"
  ELSE IF pc = "travel" THEN "refresh"
  ELSE "done"

\* What the step of task i from pc to the next suspension point does, the
\* triggers apart: hide and show the indicators, nothing during the delays,
\* arrive, and after the refresh wait reset the gaze.
StepEffect(i) ==
  /\ tasks'[i].pc = "preTravel"
       => riveHidden' /\ leadOpacity' = 1 /\ trailOpacity' = 1 /\ center' = center
  /\ tasks'[i].pc \in {"waitRive", "shrink", "travel"}
       => UNCHANGED <<center, riveHidden, leadOpacity, trailOpacity>>
  /\ tasks'[i].pc = "refresh"
       => /\ leadOpacity' = 0 /\ trailOpacity' = 0
          /\ center' = Target(tasks[i]) /\ ~riveHidden'
  /\ tasks[i].pc = "refresh"
       => /\ targetEyePos' = Gaze(50, 50) /\ eyeDelay' = {}
          /\ UNCHANGED <<center, riveHidden, leadOpacity, trailOpacity>>

\* The step of task i is one of a run to completion: it does not return
\* before the end.
GoesOn(i) == Resumed(i) /\ (tasks'[i].pc = "done" => tasks[i].pc = "refresh")

TimerStep ==
  \/ \E k \in DOMAIN typingTimers : TypingTimeoutFire(k)
  \/ \E p \in eyeDelay : EyeDelayFire(p)
  \/ \E b \in BOOLEAN : BoredomTimeoutFire(b)
  \/ \E b \in blinkTimers : BlinkFire(b)
  \/ GazeTick

\* C32: a step of the gaze tick, the gaze-delay timer, the boredom timer, the
\* typing timer or the blink timer leaves Position, the visibility of the
\* primary visual and of the dots, the pending queue, isAnimating, the
\* in-flight task, every task and the debounce timer as they are, and leaves
\* the colour and the curve alone: it changes only gaze, typing, boredom and
\* blink state.
C32_TimersLeaveMovement ==
  [][TimerStep =>
       /\ UNCHANGED <<center, riveHidden, leadOpacity, trailOpacity, animationQueue,
                      isAnimating, currentAnimation, tasks, animationDebounce,
                      timers, isFirstFocus, nextId>>
       /\ UNCHANGED <<rgb, pathD>>]_vars

\* The boredom timer has fired while a movement was running and another
\* waited in the queue.
C32_Witness ==
  /\ isBored
  /\ isAnimating
  /\ animationQueue # <<>>
  /\ Executing # {}

\* A value of the 0..100 range, in sixths scaled by k.
InRange(v, k) == v # NaN /\ 0 <= v /\ v <= Sixths(100) * k

\* C33: both components of the gaze target and of the gaze current, and the
\* values written to the xAxis and yAxis inputs, lie between 0 and 100.
C33_GazeInRange ==
  /\ InRange(targetEyePos.x, 1) /\ InRange(targetEyePos.y, 1)
  /\ InRange(currentEyePos.x, 1000) /\ InRange(currentEyePos.y, 1000)
  /\ DOMAIN axisValue # {} =>
       InRange(axisValue.x, 1000) /\ InRange(axisValue.y, 1000)

\* C40: at most one timer of each kind is pending: one movement-debounce
\* timer, one typing timer, one boredom timer, one gaze-delay timer and one
\* blink timer.
C40_OneTimerPerKind ==
  /\ Cardinality(timers) <= 1
  /\ Len(typingTimers) <= 1
  /\ Cardinality(boredomTimers) <= 1
  /\ Cardinality(eyeDelay) <= 1
  /\ Cardinality(blinkTimers) <= 1

\* One timer of each of the five kinds is pending at once.
C40_Witness ==
  /\ Cardinality(timers) = 1
  /\ Len(typingTimers) = 1
  /\ Cardinality(boredomTimers) = 1
  /\ Cardinality(eyeDelay) = 1
  /\ Cardinality(blinkTimers) = 1

(* Typing and the boredom timer. *)

\* TypingState clears.
TypingClears == isTyping /\ ~isTyping'

\* C34: when TypingState clears, whichever keystroke armed the typing timer
\* that fired, the boredom timer is pending afterwards with a callback that
\* sees TypingState false and boredom is off; and when that timer fires with
\* TypingState still false, BoredomState becomes true.
C34_TypingClearRearmsBoredom ==
  /\ [][TypingClears => boredomTimers' = {FALSE} /\ ~isBored']_vars
  /\ [][(~isTyping /\ boredomTimers = {FALSE} /\ BoredomTimeoutFire(FALSE))
          => isBored' /\ boredValue' /\ ~isTyping']_vars

\* The gaze target came from the caret, which only a keystroke after the
\* first of a burst achieves; typing has cleared since and the boredom timer
\* is pending again.
C34_Witness ==
  /\ ~isTyping
  /\ typingTimers = <<>>
  /\ boredomTimers = {FALSE}
  /\ \E c \in CaretArgs :
       targetEyePos = calculateRelativeMousePosition(c.x, c.y, center.x, center.y)
  /\ \A p \in PointerArgs :
       targetEyePos # calculateRelativeMousePosition(p.x, p.y, center.x, center.y)
  /\ targetEyePos \notin {Gaze(50, 50), BOREDOM_EYE_PLACEMENT}

\* C39: while TypingState is true, BoredomState becomes true only in a
\* triggerBoredom step; a boredom timer that fires during typing leaves
\* BoredomState as it is.
C39_NoTimerBoredomWhileTyping ==
  /\ [][(isTyping /\ ~isBored /\ isBored') => triggerBoredom]_vars
  /\ [][(isTyping /\ \E b \in BOOLEAN : BoredomTimeoutFire(b))
          => isBored' = isBored]_vars

\* The boredom timer armed by a keystroke has fired during the burst and
\* boredom is still off.
C39_Witness ==
  /\ isTyping
  /\ ~isBored
  /\ boredomTimers = {}
  /\ typingTimers # <<>>
  /\ currentState # "boredom"

====
